---- MODULE Spec2Model ----
(***************************************************************************)
(* HR Email Automation (src/main.py): the time-gated batch run that scans  *)
(* the employee roster, detects birthdays / work anniversaries / marriage  *)
(* anniversaries falling today and sends one templated mail per            *)
(* (recipient, event type) with a bounded retry loop.                      *)
(*                                                                         *)
(* The program is single-threaded; pc is the position of its one thread.   *)
(* The call server.login( of lines 147-150 is read as closed on line 150.  *)
(***************************************************************************)
EXTENDS Integers, Sequences, FiniteSets, TLC

(***************************************************************************)
(* Bounds of the model.                                                    *)
(***************************************************************************)
\* largest number of rows of the employee sheet
MaxRoster == 2
\* largest number of failed send attempts explored in one run
MaxFaults == 3
\* largest number of messages the server accepts in attempts that then fail
MaxLost == 1

(***************************************************************************)
(* Program constants.                                                      *)
(***************************************************************************)
\* send_email(..., max_retries=3)
max_retries == 3
\* self.target_hour, self.target_minute
target_hour == 16
target_minute == 49

(***************************************************************************)
(* Calendar dates and the date parser (parse_date, datetime.strptime).     *)
(***************************************************************************)
NoDate == [ok |-> FALSE, y |-> 0, m |-> 0, d |-> 0]

MkDate(y, m, d) == [ok |-> TRUE, y |-> y, m |-> m, d |-> d]

DigitVal ==
    [c \in {"0", "1", "2", "3", "4", "5", "6", "7", "8", "9"} |->
        CASE c = "0" -> 0 [] c = "1" -> 1 [] c = "2" -> 2 [] c = "3" -> 3
          [] c = "4" -> 4 [] c = "5" -> 5 [] c = "6" -> 6 [] c = "7" -> 7
          [] c = "8" -> 8 [] c = "9" -> 9]

IsDigit(c) == c \in DOMAIN DigitVal

RECURSIVE NumVal(_)
NumVal(t) ==
    IF t = <<>> THEN 0
    ELSE 10 * NumVal(SubSeq(t, 1, Len(t) - 1)) + DigitVal[t[Len(t)]]

IsLeap(y) == (y % 4 = 0 /\ y % 100 # 0) \/ y % 400 = 0

DaysInMonth(y, m) ==
    IF m = 2 THEN (IF IsLeap(y) THEN 29 ELSE 28)
    ELSE IF m \in {4, 6, 9, 11} THEN 30 ELSE 31

\* the three digit runs of s around two separators sep, or <<>> when s has
\* another shape (the regular expression of the format does not match)
Tokens(s, sep) ==
    LET nd == {i \in 1..Len(s) : ~IsDigit(s[i])}
    IN  IF Cardinality(nd) = 2 /\ \A i \in nd : s[i] = sep
        THEN LET p1 == CHOOSE i \in nd : \A j \in nd : i <= j
                 p2 == CHOOSE i \in nd : \A j \in nd : j <= i
             IN  <<SubSeq(s, 1, p1 - 1), SubSeq(s, p1 + 1, p2 - 1),
                   SubSeq(s, p2 + 1, Len(s))>>
        ELSE <<>>

\* a token matches directive %d, %m or %Y
TokenOk(dir, t) ==
    CASE dir = "d" -> \/ Len(t) = 1 /\ NumVal(t) \in 1..9
                      \/ Len(t) = 2 /\ NumVal(t) \in 1..31
      [] dir = "m" -> \/ Len(t) = 1 /\ NumVal(t) \in 1..9
                      \/ Len(t) = 2 /\ NumVal(t) \in 1..12
      [] dir = "Y" -> Len(t) = 4

\* datetime.strptime(s, fmt).date(); NoDate stands for ValueError
strptime(s, fmt) ==
    LET tk == Tokens(s, fmt.sep)
    IN  IF tk = <<>> THEN NoDate
        ELSE IF \E i \in 1..3 : ~TokenOk(fmt.order[i], tk[i]) THEN NoDate
        ELSE LET val(dir) == NumVal(tk[CHOOSE i \in 1..3 : fmt.order[i] = dir])
             IN  IF val("Y") < 1 \/ val("d") > DaysInMonth(val("Y"), val("m"))
                 THEN NoDate
                 ELSE MkDate(val("Y"), val("m"), val("d"))

\* date_formats = ['%d-%m-%Y', '%d/%m/%Y', '%Y-%m-%d', '%d.%m.%Y']
date_formats ==
    << [sep |-> "-", order |-> <<"d", "m", "Y">>],
       [sep |-> "/", order |-> <<"d", "m", "Y">>],
       [sep |-> "-", order |-> <<"Y", "m", "d">>],
       [sep |-> ".", order |-> <<"d", "m", "Y">>] >>

\* the for-loop of parse_date: the first format that parses wins
RECURSIVE TryFormats(_, _)
TryFormats(s, i) ==
    IF i > Len(date_formats) THEN NoDate
    ELSE IF strptime(s, date_formats[i]).ok THEN strptime(s, date_formats[i])
    ELSE TryFormats(s, i + 1)

\* a cell of the sheet: empty (NaN/NaT), a datetime, or text
NaN == [tag |-> "nan"]
DateTime(y, m, d, hh) == [tag |-> "datetime", y |-> y, m |-> m, d |-> d, hh |-> hh]
Text(s) == [tag |-> "text", s |-> s]

parse_date(date_value) ==
    IF date_value.tag = "nan" THEN NoDate
    ELSE IF date_value.tag = "datetime"
         THEN MkDate(date_value.y, date_value.m, date_value.d)
    ELSE TryFormats(date_value.s, 1)


(***************************************************************************)
(* The environment of one run: clock, configuration, sheet, mail server.   *)
(***************************************************************************)
\* the event types, in the order run() checks them, with the column and the
\* template each detector reads
EventTypes == <<"birthday", "work_anniversary", "marriage_anniversary">>
DateColumn == <<"Date of Birth", "Date of Joining", "Marriage Anniversary">>
TemplateName == <<"birthday.html", "work_anniversary.html", "marriage_anniversary.html">>

\* datetime.now(IST).date() at construction: the dates the detectors are
\* checked on, and the date of the runs
Todays == {MkDate(2024, 3, 15), MkDate(2025, 6, 1)}
RunTodays == {MkDate(2024, 3, 15)}

\* datetime.now(IST) read by run(): hour and minute
Clock ==
    {[hour |-> 16, minute |-> 49], [hour |-> 16, minute |-> 48],
     [hour |-> 16, minute |-> 50], [hour |-> 15, minute |-> 49],
     [hour |-> 17, minute |-> 49]}

\* what load_config finds: a usable configuration, a valid JSON document
\* without the "email" section, no file, or a file that is not JSON
ConfigStates == {"ok", "noemail", "missing", "badjson"}

\* cells of a date column
RawDates ==
    {NaN,
     DateTime(1990, 3, 15, 10),
     Text(<<"1", "5", "-", "0", "3", "-", "1", "9", "9", "0">>),
     Text(<<"1", "5", "/", "0", "3", "/", "1", "9", "9", "0">>),
     Text(<<"1", "9", "9", "0", "-", "0", "3", "-", "1", "5">>),
     Text(<<"1", "5", ".", "0", "3", ".", "1", "9", "9", "0">>),
     Text(<<"0", "1", "/", "0", "6", "/", "2", "0", "1", "9">>),
     Text(<<"1", "-", "6", "-", "2", "0", "1", "9">>),
     Text(<<"1", "5", "-", "0", "4", "-", "1", "9", "9", "0">>),
     Text(<<"1", "6", "-", "0", "3", "-", "1", "9", "9", "0">>),
     Text(<<"1", "5", ".", "0", "3", ".", "2", "0", "3", "0">>),
     Text(<<"n", "o", "t", "-", "a", "-", "d", "a", "t", "e">>),
     Text(<<"3", "1", "-", "0", "2", "-", "2", "0", "0", "0">>),
     Text(<<"2", "0", "1", "9", "/", "0", "6", "/", "0", "1">>)}

\* the date cells of the sheet of a run: empty, 15 March, 1 June
RunDates ==
    {NaN,
     Text(<<"1", "5", "-", "0", "3", "-", "1", "9", "9", "0">>),
     Text(<<"0", "1", "/", "0", "6", "/", "2", "0", "1", "9">>)}

\* cells of the Email column: empty cell, empty string, strings
Str(s) == [tag |-> "str", s |-> s]
Addresses == {"a@x.com", "b@x.com"}
Emails == {NaN, Str("")} \cup {Str(a) : a \in Addresses}

\* cells of the Employee Name column
Names == {NaN, Str("Asha")}

\* the rows the detectors are checked on: also a cell of white space
AllRows == [name : Names, email : Emails \cup {Str(" ")}]

\* a row of the sheet, without its date cells (each is read once, by its
\* detector)
Rows == {r \in [name : Names, email : Emails] : r.name = NaN => r.email = Str("a@x.com")}

\* (recipient_email, event_type)
Keys == Addresses \X {EventTypes[k] : k \in 1..3}
NoKey == <<"", "">>

\* the step of one send attempt that raises, or "ok"; "build" is the
\* KeyError of self.config['email'] before any connection is made
Outcomes == {"build", "connect", "starttls", "login", "send_message", "quit", "ok"}

Entry(level, msg) == [level |-> level, msg |-> msg]

VARIABLES
    pc,                \* position of the program
    cfg,               \* self.config as load_config found it
    today,             \* self.today
    now,               \* current_time, the clock as run() read it
    email_sent_today,  \* self.email_sent_today
    nrows,             \* len(df)
    idx,               \* rows df.iterrows() has yielded
    row,               \* the row being processed
    kind,              \* the detector at work (index into EventTypes)
    cell,              \* the date cell the detector read
    attempt,           \* send_email's loop variable
    counts,            \* birthday_count, work_anniversary_count, marriage_anniversary_count
    server,            \* the smtplib.SMTP session send_email last opened
    delivered,         \* messages the mail server accepted, per key
    call,              \* the latest send_email call: key, transport calls, sleeps, registry at entry
    tried,             \* send_email calls that opened a session, per key
    sent,              \* send_email calls that returned True, per key
    outcome,           \* how the latest detector call ended
    raised,            \* exceptions caught by the per-row handler
    faults,            \* failed send attempts so far
    loaded,            \* load_employee_data was called
    logged             \* log entries written by the latest step

vars ==
    <<pc, cfg, today, now, email_sent_today, nrows, idx, row, kind, cell, attempt,
      counts, server, delivered, call, tried, sent, outcome, raised, faults,
      loaded, logged>>

ZeroCounts == [e \in {EventTypes[k] : k \in 1..3} |-> 0]
NoCall == [key |-> NoKey, tcalls |-> 0, sleeps |-> 0, before |-> {}]
NoOutcome == [idx |-> 0, kind |-> 0, result |-> "None", detected |-> FALSE, years |-> 0]

Init ==
    /\ pc = "main"
    /\ cfg = "unread"
    /\ today = NoDate
    /\ now = [hour |-> 0, minute |-> 0]
    /\ email_sent_today = {}
    /\ nrows = 0
    /\ idx = 0
    /\ row = [name |-> NaN, email |-> NaN]
    /\ kind = 1
    /\ cell = NaN
    /\ attempt = 0
    /\ counts = ZeroCounts
    /\ server = "none"
    /\ delivered = [k \in Keys |-> 0]
    /\ call = NoCall
    /\ tried = [k \in Keys |-> 0]
    /\ sent = [k \in Keys |-> 0]
    /\ outcome = NoOutcome
    /\ raised = 0
    /\ faults = 0
    /\ loaded = FALSE
    /\ logged = <<>>

(***************************************************************************)
(* __main__ and __init__: load the configuration, read the date, create    *)
(* the empty registry.                                                     *)
(***************************************************************************)
ConstructFails ==
    /\ pc = "main"
    /\ \E c \in {"missing", "badjson"} : cfg' = c
    /\ pc' = "exit1"
    /\ logged' = <<>>
    /\ UNCHANGED <<today, now, email_sent_today, nrows, idx, row, kind, cell, attempt,
                   counts, server, delivered, call, tried, sent, outcome, raised,
                   faults, loaded>>

Construct ==
    /\ pc = "main"
    /\ \E c \in {"ok", "noemail"} : cfg' = c
    /\ \E t \in RunTodays : today' = t
    /\ email_sent_today' = {}
    /\ pc' = "run"
    /\ logged' = <<Entry("INFO", "started")>>
    /\ UNCHANGED <<now, nrows, idx, row, kind, cell, attempt, counts, server,
                   delivered, call, tried, sent, outcome, raised, faults, loaded>>

(***************************************************************************)
(* run(): the time gate and the load of the sheet.                         *)
(***************************************************************************)
\* mutant: the gate opens one minute around the target as well
shouldRun_Tolerance(current_time) ==
    /\ current_time.hour = target_hour
    /\ current_time.minute \in (target_minute - 1)..(target_minute + 1)

shouldRun(current_time) ==
    ~(current_time.hour # target_hour \/ current_time.minute # target_minute)

RunGateClosed ==
    /\ pc = "run"
    /\ \E t \in Clock : ~shouldRun(t) /\ now' = t
    /\ pc' = "exit0"
    /\ logged' = <<Entry("INFO", "not scheduled time"), Entry("INFO", "only at target time")>>
    /\ UNCHANGED <<cfg, today, email_sent_today, nrows, idx, row, kind, cell,
                   attempt, counts, server, delivered, call, tried, sent, outcome,
                   raised, faults, loaded>>

\* mutant: the failed load is logged and not raised again
RunLoadFails_Swallowed ==
    /\ pc = "run"
    /\ \E t \in Clock : shouldRun(t) /\ now' = t
    /\ loaded' = TRUE
    /\ pc' = "exit0"
    /\ logged' = <<Entry("INFO", "scheduled time reached"), Entry("ERROR", "excel"),
                   Entry("ERROR", "critical error")>>
    /\ UNCHANGED <<cfg, today, email_sent_today, nrows, idx, row, kind, cell,
                   attempt, counts, server, delivered, call, tried, sent, outcome,
                   raised, faults>>

RunLoadFails ==
    /\ pc = "run"
    /\ \E t \in Clock : shouldRun(t) /\ now' = t
    /\ loaded' = TRUE
    /\ pc' = "exit1"
    /\ logged' = <<Entry("INFO", "scheduled time reached"), Entry("ERROR", "excel"),
                   Entry("ERROR", "critical error")>>
    /\ UNCHANGED <<cfg, today, email_sent_today, nrows, idx, row, kind, cell,
                   attempt, counts, server, delivered, call, tried, sent, outcome,
                   raised, faults>>

RunLoad ==
    /\ pc = "run"
    /\ \E t \in Clock : shouldRun(t) /\ now' = t
    /\ loaded' = TRUE
    /\ \E n \in 0..MaxRoster : nrows' = n
    /\ idx' = 0
    /\ counts' = ZeroCounts
    /\ pc' = "next"
    /\ logged' = <<Entry("INFO", "scheduled time reached"), Entry("INFO", "loaded")>>
    /\ UNCHANGED <<cfg, today, email_sent_today, row, kind, cell, attempt, server,
                   delivered, call, tried, sent, outcome, raised, faults>>

(***************************************************************************)
(* run(): the loop over the rows and the summary.                          *)
(***************************************************************************)
NextRecord ==
    /\ pc = "next"
    /\ idx < nrows
    /\ idx' = idx + 1
    /\ \E r \in Rows : row' = r
    /\ kind' = 1
    /\ pc' = "detect"
    /\ logged' = <<>>
    /\ UNCHANGED <<cfg, today, now, email_sent_today, nrows, cell, attempt, counts,
                   server, delivered, call, tried, sent, outcome, raised, faults, loaded>>

Summary ==
    /\ pc = "next"
    /\ idx = nrows
    /\ pc' = "exit0"
    /\ logged' = <<Entry("INFO", "summary"), Entry("INFO", "completed")>>
    /\ UNCHANGED <<cfg, today, now, email_sent_today, nrows, idx, row, kind, cell,
                   attempt, counts, server, delivered, call, tried, sent, outcome,
                   raised, faults, loaded>>

(***************************************************************************)
(* The detectors check_birthday, check_work_anniversary and                *)
(* check_marriage_anniversary, up to the entry of send_email.              *)
(***************************************************************************)
\* mutant: only the day of the month is compared
SameDay_DayOnly(t, date) == t.d = date.d

\* self.today.day == dob.day and self.today.month == dob.month
SameDay(t, date) == t.d = date.d /\ t.m = date.m

\* age = self.today.year - dob.year
ElapsedYears(t, date) == t.y - date.y

\* mutant: only the empty cell counts as no email, not the empty string
NoEmail_NaNOnly(email) == email.tag = "nan"

\* not email or pd.isna(email)
NoEmail(email) == email.tag = "nan" \/ email.s = ""

\* template.replace('{{name}}', name) raises TypeError unless name is a str
RenderRaises(name) == name.tag # "str"

\* mutants: the registry is never consulted; the key is looked up with its
\* parts swapped
IsDuplicate_Never(key, registry) == FALSE
IsDuplicate_Swapped(key, registry) == <<key[2], key[1]>> \in registry

\* mutant: the registry is looked up by address alone
IsDuplicate_ByEmail(key, registry) == \E K \in registry : K[1] = key[1]

\* email_event_key in self.email_sent_today
IsDuplicate(key, registry) == key \in registry

\* mutant: a call that gave up also counts as a sent mail
Truthy_AlsoFailed(result) == result \in {"Sent", "Failed"}

\* the truth value a detector hands to run(): send_email's return value
Truthy(result) == result = "Sent"

\* parse_date on every cell of the model
Parsed == [raw \in RawDates \cup RunDates |-> parse_date(raw)]

\* a detector from its entry to the entry of send_email's loop: what it
\* returns ("Pending": send_email goes on to its first attempt), whether it
\* logged the event as detected, the years it computed, what it logged
detect(t, r, raw, template_found, registry, k) ==
    LET date == Parsed[raw]
        years == ElapsedYears(t, date)
        res(result, detected, log) ==
            [result |-> result, detected |-> detected,
             years |-> IF detected THEN years ELSE 0, logged |-> log]
    IN  IF ~date.ok THEN res("NoMatch", FALSE, <<>>)
        ELSE IF ~SameDay(t, date) THEN res("NoMatch", FALSE, <<>>)
        ELSE IF NoEmail(r.email)
        THEN res("NoMatch", FALSE, <<Entry("WARNING", "no email address")>>)
        ELSE IF ~template_found
        THEN res("Raised", TRUE,
                 <<Entry("INFO", "detected"), Entry("ERROR", "template not found"),
                   Entry("ERROR", "error processing employee")>>)
        ELSE IF RenderRaises(r.name)
        THEN res("Raised", TRUE,
                 <<Entry("INFO", "detected"), Entry("ERROR", "error processing employee")>>)
        ELSE IF IsDuplicate(<<r.email.s, EventTypes[k]>>, registry)
        THEN res("Suppressed", TRUE,
                 <<Entry("INFO", "detected"), Entry("WARNING", "duplicate prevented")>>)
        ELSE res("Pending", TRUE, <<Entry("INFO", "detected")>>)

\* mutant: no per-row handler, an exception ends the run
Finish_Propagate(result) ==
    /\ counts' = IF Truthy(result)
                 THEN [counts EXCEPT ![EventTypes[kind]] = @ + 1]
                 ELSE counts
    /\ raised' = IF result = "Raised" THEN raised + 1 ELSE raised
    /\ server' = "none"
    /\ IF result = "Raised"
       THEN pc' = "exit1" /\ kind' = kind
       ELSE IF kind = Len(EventTypes)
       THEN pc' = "next" /\ kind' = kind
       ELSE pc' = "detect" /\ kind' = kind + 1

\* mutant: each detector call has its own handler
Finish_PerKind(result) ==
    /\ counts' = IF Truthy(result)
                 THEN [counts EXCEPT ![EventTypes[kind]] = @ + 1]
                 ELSE counts
    /\ raised' = IF result = "Raised" THEN raised + 1 ELSE raised
    /\ server' = "none"
    /\ IF kind = Len(EventTypes)
       THEN pc' = "next" /\ kind' = kind
       ELSE pc' = "detect" /\ kind' = kind + 1

\* the detector call ends with `result`: run() counts it and moves on to the
\* next detector, or to the next row after the last detector or an exception
Finish(result) ==
    /\ counts' = IF Truthy(result)
                 THEN [counts EXCEPT ![EventTypes[kind]] = @ + 1]
                 ELSE counts
    /\ raised' = IF result = "Raised" THEN raised + 1 ELSE raised
    /\ server' = "none"
    /\ IF result = "Raised" \/ kind = Len(EventTypes)
       THEN pc' = "next" /\ kind' = kind
       ELSE pc' = "detect" /\ kind' = kind + 1

DetectFrom(cells) ==
    /\ pc = "detect"
    /\ \E raw \in cells, template_found \in BOOLEAN :
        LET r == detect(today, row, raw, template_found, email_sent_today, kind)
            entered == r.result \in {"Suppressed", "Pending"}
        IN  /\ cell' = raw
            /\ outcome' = [idx |-> idx, kind |-> kind, result |-> r.result,
                           detected |-> r.detected, years |-> r.years]
            /\ logged' = r.logged
            /\ call' = IF entered
                       THEN [key |-> <<row.email.s, EventTypes[kind]>>, tcalls |-> 0,
                             sleeps |-> 0, before |-> email_sent_today]
                       ELSE NoCall
            /\ IF r.result = "Pending"
               THEN /\ attempt' = 1
                    /\ pc' = "attempt"
                    /\ UNCHANGED <<counts, raised, kind, server>>
               ELSE /\ Finish(r.result)
                    /\ UNCHANGED attempt
    /\ UNCHANGED <<cfg, today, now, email_sent_today, nrows, idx, row, delivered,
                   tried, sent, faults, loaded>>

Detect == DetectFrom(RunDates)

(***************************************************************************)
(* send_email: one pass of the retry loop, and the sleep between passes.   *)
(***************************************************************************)
\* the session object after an attempt that ended at `step`: quit() closes
\* it; an exception before quit() leaves no close behind
ServerAfter(step, closedByLibrary) ==
    CASE step \in {"build", "connect"} -> server
      [] step \in {"starttls", "login", "send_message"} -> "open"
      [] step = "quit" -> IF closedByLibrary THEN "closed" ELSE "open"
      [] step = "ok" -> "closed"

\* server.send_message(msg) returned: the server took the message
Accepted(step) == step \in {"quit", "ok"}

\* smtplib.SMTP(host, port) was called
OpensSession(step) == step # "build"

\* mutant: a sent key is not recorded
RegistryAdd_Forget(registry, key) == registry

\* mutant: adding a key drops the keys recorded before it
RegistryAdd_Reset(registry, key) == {key}

\* self.email_sent_today.add(email_event_key)
RegistryAdd(registry, key) == registry \cup {key}

\* mutant: the loop gives up one attempt early
RetriesLeft_OffByOne(n) == n < max_retries - 1

\* mutant: the last attempt also waits and retries
RetriesLeft_OneMore(n) == n <= max_retries

\* if attempt < max_retries
RetriesLeft(n) == n < max_retries

RECURSIVE SumOver(_, _)
SumOver(f, S) ==
    IF S = {} THEN 0
    ELSE LET k == CHOOSE x \in S : TRUE IN f[k] + SumOver(f, S \ {k})

Sum(f) == SumOver(f, DOMAIN f)

\* messages the server accepted in attempts that then raised
Lost == Sum(delivered) - Sum(sent)

Attempt ==
    /\ pc = "attempt"
    /\ \E step \in Outcomes, closedByLibrary \in BOOLEAN :
        /\ (step = "build") <=> (cfg = "noemail")
        /\ step \notin {"build", "ok"} => faults < MaxFaults
        /\ step = "quit" => Lost < MaxLost
        /\ faults' = IF step \notin {"build", "ok"} THEN faults + 1 ELSE faults
        /\ delivered' = IF Accepted(step)
                        THEN [delivered EXCEPT ![call.key] = @ + 1]
                        ELSE delivered
        /\ call' = IF OpensSession(step)
                   THEN [call EXCEPT !.tcalls = @ + 1]
                   ELSE call
        /\ tried' = IF OpensSession(step) /\ call.tcalls = 0
                    THEN [tried EXCEPT ![call.key] = @ + 1]
                    ELSE tried
        /\ IF step = "ok"
           THEN /\ email_sent_today' = RegistryAdd(email_sent_today, call.key)
                /\ sent' = [sent EXCEPT ![call.key] = @ + 1]
                /\ Finish("Sent")
                /\ outcome' = [outcome EXCEPT !.result = "Sent"]
                /\ logged' = <<Entry("INFO", "email sent")>>
                /\ UNCHANGED attempt
           ELSE IF RetriesLeft(attempt)
           THEN /\ pc' = "sleep"
                /\ server' = ServerAfter(step, closedByLibrary)
                /\ logged' = <<Entry("WARNING", "attempt failed")>>
                /\ UNCHANGED <<email_sent_today, sent, attempt, outcome, counts, raised, kind>>
           ELSE /\ Finish("Failed")
                /\ outcome' = [outcome EXCEPT !.result = "Failed"]
                /\ logged' = <<Entry("WARNING", "attempt failed"), Entry("ERROR", "failed to send")>>
                /\ UNCHANGED <<email_sent_today, sent, attempt>>
    /\ UNCHANGED <<cfg, today, now, nrows, idx, row, cell, loaded>>

\* time.sleep(2), then the next pass of the loop
Sleep ==
    /\ pc = "sleep"
    /\ call' = [call EXCEPT !.sleeps = @ + 1]
    /\ attempt' = attempt + 1
    /\ pc' = "attempt"
    /\ logged' = <<>>
    /\ UNCHANGED <<cfg, today, now, email_sent_today, nrows, idx, row, kind, cell,
                   counts, server, delivered, tried, sent, outcome, raised, faults,
                   loaded>>

Next ==
    \/ ConstructFails
    \/ Construct
    \/ RunGateClosed
    \/ RunLoadFails
    \/ RunLoad
    \/ NextRecord
    \/ Detect
    \/ Attempt
    \/ Sleep
    \/ Summary

Spec == Init /\ [][Next]_vars

\* the program is one sequential thread: a step that can be taken is taken,
\* every call into smtplib returning or raising and time.sleep(2) returning
FairSpec == Spec /\ WF_vars(Next)

(***************************************************************************)
(* The detectors alone, applied to every cell, row and date: the state at  *)
(* the top of the loop body of run(), then the three detector calls.       *)
(***************************************************************************)
DetectInit ==
    /\ pc = "detect"
    /\ cfg = "ok"
    /\ today \in Todays
    /\ now = [hour |-> target_hour, minute |-> target_minute]
    /\ email_sent_today = {}
    /\ nrows = 1
    /\ idx = 1
    /\ row \in AllRows
    /\ kind = 1
    /\ cell = NaN
    /\ attempt = 0
    /\ counts = ZeroCounts
    /\ server = "none"
    /\ delivered = [k \in Keys |-> 0]
    /\ call = NoCall
    /\ tried = [k \in Keys |-> 0]
    /\ sent = [k \in Keys |-> 0]
    /\ outcome = NoOutcome
    /\ raised = 0
    /\ faults = 0
    /\ loaded = TRUE
    /\ logged = <<>>

DetectAll == DetectFrom(RawDates)

DetectSpec == DetectInit /\ [][DetectAll]_vars

(***************************************************************************)
(* Properties.                                                             *)
(***************************************************************************)
HasLevel(log, level) == \E i \in 1..Len(log) : log[i].level = level

CountMsg(log, msg) == Cardinality({i \in 1..Len(log) : log[i].msg = msg})

\* a send_email call for key K is entered in this step
Enters(K) == pc = "detect" /\ call'.key = K

\* C1 as stated: for every (recipient, event type) at most one send_email
\* call of the run performs transport calls, whether it ends Sent or Failed.
C1_OneAttemptedCallPerKey == \A K \in Keys : tried[K] <= 1

\* C1, amended: for every (recipient, event type) at most one send_email call
\* ends Sent, and once a call for the key has ended Sent every later call for
\* it returns Suppressed and makes no transport call.
C1_SentKeyNeverRetried ==
    [][\A K \in Keys :
          /\ sent'[K] <= 1
          /\ sent[K] >= 1 =>
                /\ tried'[K] = tried[K]
                /\ delivered'[K] = delivered[K]
                /\ Enters(K) => outcome'.result = "Suppressed"]_vars

\* C1 witness: the second row's detection for a key already sent is Suppressed.
C1_Witness ==
    /\ outcome.result = "Suppressed"
    /\ outcome.idx = 2
    /\ sent[call.key] = 1
    /\ tried[call.key] = 1

\* C2: at most one message is handed to the mail server for any
\* (recipient, event type), whatever steps of the attempts fail.
C2_AtMostOneTransmitted == \A K \in Keys : delivered[K] <= 1

\* C3: a send_email call whose key is already in the registry returns
\* Suppressed at once: no transport call, no sleep, registry unchanged.
C3_DuplicateSuppressed ==
    [][\A K \in Keys :
          (Enters(K) /\ K \in email_sent_today) =>
              /\ outcome'.result = "Suppressed"
              /\ pc' \notin {"attempt", "sleep"}
              /\ call'.tcalls = 0
              /\ call'.sleeps = 0
              /\ email_sent_today' = email_sent_today
              /\ delivered' = delivered
              /\ tried' = tried]_vars

\* C3 witness: a call suppressed for a key of the registry.
C3_Witness ==
    /\ outcome.result = "Suppressed"
    /\ call.key \in call.before
    /\ call.tcalls = 0

\* C4: a call that succeeds on attempt N after N-1 failed attempts returns
\* Sent after exactly N transport calls and N-1 sleeps, N <= max_retries, with
\* the key in the registry, and the loop has ended.
C4_RetryLaw ==
    outcome.result = "Sent" =>
        /\ attempt \in 1..max_retries
        /\ call.tcalls = attempt
        /\ call.sleeps = attempt - 1
        /\ call.key \in email_sent_today
        /\ pc \notin {"attempt", "sleep"}

\* C4 witness: Sent on the last attempt, after two failures.
C4_Witness ==
    /\ outcome.result = "Sent"
    /\ attempt = max_retries
    /\ call.tcalls = max_retries
    /\ call.sleeps = max_retries - 1

\* C5: when every attempt fails at the transport, the call returns Failed
\* after exactly max_retries transport calls, the registry is as it was at
\* the call's entry and an ERROR entry is logged.
C5_RetryExhaustion ==
    [][(pc = "attempt" /\ outcome'.result = "Failed") =>
          /\ cfg = "ok" => call'.tcalls = max_retries
          /\ call'.sleeps = max_retries - 1
          /\ email_sent_today' = call.before
          /\ call.key \notin email_sent_today'
          /\ HasLevel(logged', "ERROR")]_vars

\* C5 witness: a call that failed after max_retries transport calls.
C5_Witness ==
    /\ outcome.result = "Failed"
    /\ call.tcalls = max_retries
    /\ HasLevel(logged, "ERROR")

\* the date cell read by the latest detector call falls on today
CellMatchesToday ==
    /\ Parsed[cell].ok
    /\ Parsed[cell].m = today.m
    /\ Parsed[cell].d = today.d

\* C6: for each event type, a date that matches today with a missing or
\* empty Email cell ends the detector with NoMatch: send_email is not
\* entered, no transport call is made, registry and counters are unchanged.
C6_NoEmailNoDelivery ==
    [][(pc = "detect" /\ CellMatchesToday' /\ (row.email = NaN \/ row.email = Str(""))) =>
          /\ outcome'.result = "NoMatch"
          /\ call' = NoCall
          /\ pc' \notin {"attempt", "sleep"}
          /\ UNCHANGED <<email_sent_today, counts, delivered, tried, sent>>]_vars

\* C6 witness: the marriage anniversary detector met a matching date and an
\* empty Email cell.
C6_Witness ==
    /\ outcome.kind = 3
    /\ outcome.result = "NoMatch"
    /\ CellMatchesToday
    /\ row.email = Str("")

AtTarget == now.hour = 16 /\ now.minute = 49

SentOfType(e) == SumOver(sent, {K \in Keys : K[2] = e})

\* C8: each counter equals the number of send_email calls of its event type
\* that returned Sent, at every point of the pass and at its end; a Failed
\* call leaves the pass running to its summary.
C8_CountersCountSent ==
    /\ \A k \in 1..3 : counts[EventTypes[k]] = SentOfType(EventTypes[k])
    /\ outcome.result = "Failed" => pc \in {"detect", "next", "exit0"}
    /\ (pc = "exit0" /\ loaded) => idx = nrows

\* C8 witness: the pass ended after a Sent birthday mail and a Failed last call.
C8_Witness ==
    /\ pc = "exit0"
    /\ outcome.result = "Failed"
    /\ counts["birthday"] = 1
    /\ counts["marriage_anniversary"] = 0

\* C9: an exception raised for one row is caught there: the pass goes on to
\* the next row, every row is iterated and the summary is logged.
C9_RecordErrorsContained ==
    /\ raised > 0 => pc \in {"next", "detect", "attempt", "sleep", "exit0"}
    /\ (outcome.result = "Raised" /\ outcome.idx = idx) => pc \in {"next", "exit0"}
    /\ (pc = "exit0" /\ loaded) =>
          /\ idx = nrows
          /\ CountMsg(logged, "summary") = 1

\* C9 witness: the first row raised, the second row was processed to a Sent
\* mail and the run reached its summary.
C9_Witness ==
    /\ pc = "exit0"
    /\ raised = 1
    /\ outcome.idx = 2
    /\ outcome.result = "Sent"

\* a detector call has ended or reached send_email in the latest step
Detected == outcome.kind # 0

HasEmail == row.email # NaN /\ row.email # Str("")

\* C10 as stated: every date cell that resolves to today's month and day
\* yields one match with elapsed years today.year - year, for each event type.
C10_EveryMatchingDateDetected ==
    (Detected /\ CellMatchesToday) =>
        /\ outcome.detected
        /\ outcome.years = today.y - Parsed[cell].y

\* C10, amended: every date cell that resolves to today's month and day, in a
\* row whose Email cell is present and not empty, yields exactly one match
\* with elapsed years today.year - year, for each event type; no match is
\* produced when the month or the day differ or the cell does not resolve.
C10_MatchingDateWithEmailDetected ==
    Detected =>
        /\ (CellMatchesToday /\ HasEmail) =>
              /\ outcome.detected
              /\ outcome.years = today.y - Parsed[cell].y
              /\ CountMsg(logged, "detected") = 1
        /\ ~CellMatchesToday =>
              /\ ~outcome.detected
              /\ outcome.result = "NoMatch"
              /\ CountMsg(logged, "detected") = 0
        /\ (cell = Text(<<"1", "5", "-", "0", "3", "-", "1", "9", "9", "0">>)
              /\ today = MkDate(2024, 3, 15) /\ HasEmail) =>
              outcome.detected /\ outcome.years = 34
        /\ (cell = Text(<<"0", "1", "/", "0", "6", "/", "2", "0", "1", "9">>)
              /\ today = MkDate(2025, 6, 1) /\ HasEmail) =>
              outcome.detected /\ outcome.years = 6
        /\ (cell = Text(<<"1", "5", "-", "0", "4", "-", "1", "9", "9", "0">>)
              /\ today = MkDate(2024, 3, 15)) => ~outcome.detected

\* C10 witness: the work anniversary detector matched 01/06/2019 on 1 June 2025.
C10_Witness ==
    /\ outcome.kind = 2
    /\ outcome.detected
    /\ outcome.years = 6
    /\ cell = Text(<<"0", "1", "/", "0", "6", "/", "2", "0", "1", "9">>)

CountLevel(log, level) == Cardinality({i \in 1..Len(log) : log[i].level = level})

\* the date cell read by the latest detector call is text in none of the
\* four formats
CellUnparseable == cell.tag = "text" /\ ~Parsed[cell].ok

\* C11: a date cell in none of the supported formats ends its detector with
\* NoMatch, exactly one warning is logged for it and send_email is not
\* entered.
C11_UnparseableWarnedOnce ==
    (Detected /\ CellUnparseable) =>
        /\ outcome.result = "NoMatch"
        /\ CountLevel(logged, "WARNING") = 1
        /\ call = NoCall
        /\ pc \notin {"attempt", "sleep"}

HasMsg(log, msg) == \E i \in 1..Len(log) : log[i].msg = msg

\* C12 as stated: every run that exits zero has logged the summary, with the
\* gate open or closed.
C12_ExitZeroAfterSummary == pc = "exit0" => CountMsg(logged, "summary") = 1

\* C12, amended: the process exits non-zero exactly when the configuration is
\* missing or not JSON or the sheet cannot be read; every other run exits
\* zero, after the summary when the gate was open and after the "not
\* scheduled time" entries, without a summary, when it was closed.
C12_ExitCodes ==
    /\ cfg \in {"missing", "badjson"} => pc = "exit1"
    /\ HasMsg(logged, "excel") => pc = "exit1"
    /\ pc = "exit1" => (cfg \in {"missing", "badjson"} \/ (loaded /\ HasMsg(logged, "excel")))
    /\ pc = "exit0" =>
          /\ cfg \in {"ok", "noemail"}
          /\ AtTarget => (idx = nrows /\ CountMsg(logged, "summary") = 1)
          /\ ~AtTarget =>
                /\ CountMsg(logged, "summary") = 0
                /\ HasMsg(logged, "not scheduled time")

\* C12 witness: the sheet could not be read and the process exited non-zero.
C12_Witness ==
    /\ pc = "exit1"
    /\ cfg = "ok"
    /\ loaded
    /\ HasLevel(logged, "ERROR")

\* C13 as stated: an exception in one detector of a record leaves the
\* record's remaining detectors to run.
C13_RemainingKindsStillRun ==
    (outcome.result = "Raised" /\ outcome.kind < Len(EventTypes) /\ outcome.idx = idx) =>
        (pc = "detect" /\ kind = outcome.kind + 1)

\* C13, amended: an exception in one detector of a record is caught for the
\* whole record: the record's remaining detectors are skipped and the pass
\* goes on with the first detector of the next record; a detector after the
\* first runs only when the one before it returned.
C13_FailureSkipsRestOfRecord ==
    /\ [](pc = "detect" /\ kind > 1 =>
            /\ outcome.idx = idx
            /\ outcome.kind = kind - 1
            /\ outcome.result # "Raised")
    /\ [][(pc = "detect" /\ outcome'.result = "Raised") =>
            (pc' = "next" /\ idx' = idx /\ call' = NoCall /\ counts' = counts)]_vars
    /\ [][(pc = "next" /\ outcome.result = "Raised") =>
            \/ pc' = "exit0"
            \/ (pc' = "detect" /\ idx' = idx + 1 /\ kind' = 1)]_vars

\* C13 witness: the first detector of the first record raised and the pass is
\* at the first detector of the second record.
C13_Witness ==
    /\ outcome.result = "Raised"
    /\ outcome.kind = 1
    /\ outcome.idx = 1
    /\ pc = "detect"
    /\ idx = 2
    /\ kind = 1

\* C14: at the start of every attempt and at every backoff wait, no session
\* opened by an earlier attempt of the call is still open.
C14_NoOpenConnection == pc \in {"attempt", "sleep"} => server # "open"

KeysOf(e) == {K \in Keys : K[1] = e}

\* C15: a send_email call is suppressed exactly when its own (email, event
\* type) key is in the registry, whatever other keys of the same address are
\* there; an attempt that meets no transport failure ends Sent with one more
\* message handed over for its key; and while the transport has never failed
\* no key has had two messages, so an employee whose three dates match gets
\* three messages, one per event type.
C15_DedupPerEmailAndKind ==
    /\ [](faults = 0 => \A K \in Keys : delivered[K] <= 1 /\ delivered[K] = sent[K])
    /\ [][(pc = "detect" /\ outcome'.result \in {"Suppressed", "Pending"}) =>
            /\ call'.key = <<row.email.s, EventTypes[kind]>>
            /\ (outcome'.result = "Suppressed") <=> (call'.key \in email_sent_today)]_vars
    /\ [][(pc = "attempt" /\ faults' = faults /\ cfg = "ok") =>
            /\ outcome'.result = "Sent"
            /\ delivered' = [delivered EXCEPT ![call.key] = @ + 1]]_vars

\* C15 witness: the transport never failed and the first record, a@x.com, has
\* been sent its three messages, one per event type.
C15_Witness ==
    /\ faults = 0
    /\ idx = 1
    /\ pc = "next"
    /\ \A K \in KeysOf("a@x.com") : delivered[K] = 1 /\ sent[K] = 1
    /\ email_sent_today = KeysOf("a@x.com")

\* a record of the pass has been processed to its end, or the pass is over
RecordDone == pc = "next" \/ (pc = "exit0" /\ AtTarget)

\* C16: whenever a record has been fully processed, the three counters add
\* up to the number of keys in the registry; the registry is empty before
\* the pass, never loses a key, and holds exactly the keys for which a
\* send_email call of this run returned True.
C16_CountersMatchRegistry ==
    /\ [](RecordDone => Sum(counts) = Cardinality(email_sent_today))
    /\ [](email_sent_today = {K \in Keys : sent[K] >= 1})
    /\ [](pc \in {"main", "run"} => email_sent_today = {})
    /\ [][email_sent_today \subseteq email_sent_today']_vars

\* C16 witness: the pass is over with two keys in the registry and two mails
\* counted.
C16_Witness ==
    /\ pc = "exit0"
    /\ Cardinality(email_sent_today) = 2
    /\ Sum(counts) = 2
    /\ idx = 2

InPass == pc \in {"next", "detect", "attempt", "sleep"}

\* C17: a pass behind the open gate ends, whatever the transport does; a
\* send_email call makes at most max_retries SMTP connections and at most
\* max_retries - 1 sleeps; a record has at most three detector calls, each
\* with at most one send_email call; and a sleep happens only after a failed
\* attempt and is followed by the next attempt of the same call.
C17_PassTerminates ==
    /\ InPass ~> (pc = "exit0" /\ idx = nrows)
    /\ <>(pc \in {"exit0", "exit1"})
    /\ [](/\ call.tcalls <= max_retries
          /\ call.sleeps <= max_retries - 1
          /\ kind \in 1..Len(EventTypes)
          /\ pc \in {"attempt", "sleep"} => attempt \in 1..max_retries)
    /\ [][(idx' = idx /\ kind' # kind) => kind' = kind + 1]_vars
    /\ [][(call'.key # call.key \/ call'.tcalls < call.tcalls \/ call'.sleeps < call.sleeps)
            => pc = "detect"]_vars
    /\ [][pc' = "sleep" =>
            /\ pc = "attempt"
            /\ HasMsg(logged', "attempt failed")
            /\ outcome'.result = "Pending"
            /\ call'.key = call.key]_vars
    /\ [][pc = "sleep" =>
            /\ pc' = "attempt"
            /\ call' = [call EXCEPT !.sleeps = @ + 1]
            /\ attempt' = attempt + 1]_vars

\* C17 witness: a call has used its three connections and two sleeps, and
\* the pass has ended.
C17_Witness ==
    /\ pc = "exit0"
    /\ call.tcalls = max_retries
    /\ call.sleeps = max_retries - 1
    /\ outcome.result = "Failed"
====
